---------------------------- MODULE Spec2Model ----------------------------
(***************************************************************************)
(* A model of the CHIP-8 interpreter of core/src: the decoder              *)
(* (impl From<u16> for Instruction), the 35 instruction handlers, and the  *)
(* Program object with its host-facing operations (new, load, run,         *)
(* keydown, keyup) and the wasm binding's decrement_timers.                *)
(*                                                                         *)
(* Numbers are written in decimal; the hexadecimal value of the source is  *)
(* given in a comment where it helps.                                      *)
(***************************************************************************)
EXTENDS Integers, Sequences, FiniteSets, TLC

VARIABLES
    memory,           \* Program.memory: [u8; 4096]
    v,                \* Program.v: [u8; 16]
    i,                \* Program.i: u16
    delay_timer,      \* Program.delay_timer: u8
    sound_timer,      \* Program.sound_timer: u8
    program_counter,  \* Program.program_counter: u16
    stack_pointer,    \* Program.stack_pointer: u8
    keypad,           \* Program.keypad: [bool; 16]
    screen,           \* Program.screen: [[bool; 64]; 32]
    stack,            \* Program.stack: [u16; 16]
    overflow_checks,  \* build profile: TRUE = integer overflow panics (debug)
    panicked,         \* TRUE once a call has panicked
    message,          \* the panic message ("" when none)
    code,             \* the last word handed to Instruction::from
    decoded,          \* the last Instruction returned by Instruction::from
    cursor,           \* the Cursor returned by the last completed run()
    loaded,           \* TRUE once load() has been called
    calls,            \* history: the calls still open, oldest first
    screen_before     \* history: the cells lit before the last Draw ran

program_vars ==
    <<memory, v, i, delay_timer, sound_timer, program_counter,
      stack_pointer, keypad, screen, stack>>

vars ==
    <<memory, v, i, delay_timer, sound_timer, program_counter,
      stack_pointer, keypad, screen, stack, overflow_checks, panicked,
      message, code, decoded, cursor, loaded, calls, screen_before>>

---------------------------------------------------------------------------
(* Fixed-width integer helpers.                                            *)

Pow2(k) == 2 ^ k

\* `as u8` / `as u16`: truncation to the low bits.
U8(n) == n % 256
U16(n) == n % 65536

RECURSIVE BitAnd(_, _)
BitAnd(a, b) ==
    IF a = 0 \/ b = 0 THEN 0
    ELSE (a % 2) * (b % 2) + 2 * BitAnd(a \div 2, b \div 2)

RECURSIVE BitOr(_, _)
BitOr(a, b) ==
    IF a = 0 THEN b
    ELSE IF b = 0 THEN a
    ELSE (IF a % 2 = 1 \/ b % 2 = 1 THEN 1 ELSE 0)
         + 2 * BitOr(a \div 2, b \div 2)

RECURSIVE BitXor(_, _)
BitXor(a, b) ==
    IF a = 0 THEN b
    ELSE IF b = 0 THEN a
    ELSE ((a + b) % 2) + 2 * BitXor(a \div 2, b \div 2)

\* x << k and x >> k on a value of `width` bits.
Shl(x, k, width) == (x * Pow2(k)) % Pow2(width)
Shr(x, k) == x \div Pow2(k)

\* u8::wrapping_sub
WrappingSub(a, b) == (a - b + 256) % 256

---------------------------------------------------------------------------
(* The decoder.                                                            *)

\* A value that shifts y by three bits instead of four.
valueShiftedByThree(y, n) == BitOr(BitAnd(Shl(y, 3, 8), 240), BitAnd(n, 15))

\* fn value(y: u8, n: u8) -> u8 { ((y << 4) & 0xF0) | (n & 0xF) }
value(y, n) == BitOr(BitAnd(Shl(y, 4, 8), 240), BitAnd(n, 15))

\* An address that forgets its high nibble.
addressLowByteOnly(x, y, n) == value(y, n)

\* fn address(x: u8, y: u8, n: u8) -> u16
\*   { (((x as u16) << 8) & 0xF00) | value(y, n) as u16 }
address(x, y, n) == BitOr(BitAnd(Shl(x, 8, 16), 3840), value(y, n))

\* The nibbles tuple built at the head of Instruction::from.
Nibbles(w) ==
    << Shr(BitAnd(w, 61440), 12),    \* (code & 0xF000) >> 12
       Shr(BitAnd(w, 3840), 8),      \* (code & 0x0F00) >> 8
       Shr(BitAnd(w, 240), 4),       \* (code & 0x00F0) >> 4
       BitAnd(w, 15) >>              \* code & 0x000F

NoInstruction == [op |-> "None"]

\* A decoder whose last arm gives up on the words it does not know.
InvalidInstructionFromNothing(a, b, c, d) ==
    [op |-> "Unmatched"]

\* The last arm of the match: (a, b, c, d) => InvalidInstruction { a, b, c, d }.
InvalidInstructionFrom(a, b, c, d) ==
    [op |-> "InvalidInstruction", a |-> a, b |-> b, c |-> c, d |-> d]

\* impl From<u16> for Instruction: the match arms in the order of the
\* instructions! table; the first arm whose pattern matches is taken.
InstructionFrom(w) ==
    LET nib == Nibbles(w)
        a == nib[1]
        x == nib[2]
        y == nib[3]
        n == nib[4]
    IN
    IF a = 0 /\ x = 0 /\ y = 14 /\ n = 0 THEN [op |-> "Clear"]
    ELSE IF a = 0 /\ x = 0 /\ y = 14 /\ n = 14 THEN [op |-> "ReturnSubroutine"]
    ELSE IF a = 1 THEN [op |-> "JumpTo", address |-> address(x, y, n)]
    ELSE IF a = 2 THEN [op |-> "CallSubroutine", address |-> address(x, y, n)]
    ELSE IF a = 3 THEN [op |-> "SkipEqual", x |-> x, value |-> value(y, n)]
    ELSE IF a = 4 THEN [op |-> "SkipNotEqual", x |-> x, value |-> value(y, n)]
    ELSE IF a = 5 /\ n = 0 THEN [op |-> "SkipRegisterEqual", x |-> x, y |-> y]
    ELSE IF a = 6 THEN [op |-> "SetRegister", x |-> x, value |-> value(y, n)]
    ELSE IF a = 7 THEN [op |-> "AddRegister", x |-> x, value |-> value(y, n)]
    ELSE IF a = 8 /\ n = 0 THEN [op |-> "SetVxToVy", x |-> x, y |-> y]
    ELSE IF a = 8 /\ n = 1 THEN [op |-> "SetVxToVxOrVy", x |-> x, y |-> y]
    ELSE IF a = 8 /\ n = 2 THEN [op |-> "SetVxToVxAndVy", x |-> x, y |-> y]
    ELSE IF a = 8 /\ n = 3 THEN [op |-> "SetVxToVxXorVy", x |-> x, y |-> y]
    ELSE IF a = 8 /\ n = 4 THEN [op |-> "SetVxToVxAndVyCarry", x |-> x, y |-> y]
    ELSE IF a = 8 /\ n = 5 THEN [op |-> "SetVxToVxSubVy", x |-> x, y |-> y]
    ELSE IF a = 8 /\ n = 6 THEN [op |-> "SetVxToVxShr", x |-> x]
    ELSE IF a = 8 /\ n = 7 THEN [op |-> "SetVxToVySubVx", x |-> x, y |-> y]
    ELSE IF a = 8 /\ n = 14 THEN [op |-> "SetVxToVxShl", x |-> x]
    ELSE IF a = 9 /\ n = 0 THEN [op |-> "SkipRegisterNotEqual", x |-> x, y |-> y]
    ELSE IF a = 10 THEN [op |-> "SetIToAddress", address |-> address(x, y, n)]
    ELSE IF a = 11 THEN [op |-> "JumpToPlusV0", address |-> address(x, y, n)]
    ELSE IF a = 12
        THEN [op |-> "SetVxToRandomAndValue", x |-> x, value |-> value(y, n)]
    ELSE IF a = 13 THEN [op |-> "Draw", x |-> x, y |-> y, n |-> n]
    ELSE IF a = 14 /\ y = 9 /\ n = 14 THEN [op |-> "SkipKeyPressed", x |-> x]
    ELSE IF a = 14 /\ y = 10 /\ n = 1 THEN [op |-> "SkipKeyNotPressed", x |-> x]
    ELSE IF a = 15 /\ y = 0 /\ n = 7 THEN [op |-> "SetVxToDelayTimer", x |-> x]
    ELSE IF a = 15 /\ y = 0 /\ n = 4 THEN [op |-> "SetVxToNextKeyPress", x |-> x]
    ELSE IF a = 15 /\ y = 1 /\ n = 5 THEN [op |-> "SetDelayTimerToVx", x |-> x]
    ELSE IF a = 15 /\ y = 1 /\ n = 8 THEN [op |-> "SetSoundTimerToVx", x |-> x]
    ELSE IF a = 15 /\ y = 1 /\ n = 14 THEN [op |-> "AddVxToI", x |-> x]
    ELSE IF a = 15 /\ y = 2 /\ n = 9 THEN [op |-> "SetIToSpriteLocation", x |-> x]
    ELSE IF a = 15 /\ y = 3 /\ n = 3 THEN [op |-> "StoreBCD", x |-> x]
    ELSE IF a = 15 /\ y = 5 /\ n = 5 THEN [op |-> "StoreRegisters", x |-> x]
    ELSE IF a = 15 /\ y = 6 /\ n = 5 THEN [op |-> "ReadRegisters", x |-> x]
    ELSE InvalidInstructionFrom(a, x, y, n)

---------------------------------------------------------------------------
(* The Program object and the Cursor.                                      *)

\* pub const SPRITES: [[u8; 5]; 16], flattened in row order.
SPRITES ==
    << 240, 144, 144, 144, 240,    \* 0
       32, 96, 32, 32, 112,        \* 1
       240, 16, 240, 128, 240,     \* 2
       240, 16, 240, 16, 240,      \* 3
       144, 144, 240, 16, 16,      \* 4
       240, 128, 240, 16, 240,     \* 5
       240, 128, 240, 144, 240,    \* 6
       240, 16, 32, 64, 64,        \* 7
       240, 144, 240, 144, 240,    \* 8
       240, 144, 240, 16, 240,     \* 9
       240, 144, 240, 144, 144,    \* A
       224, 144, 224, 144, 224,    \* B
       240, 128, 128, 128, 240,    \* C
       224, 144, 144, 144, 224,    \* D
       240, 128, 240, 128, 240,    \* E
       240, 128, 240, 128, 128 >>  \* F

\* pub enum Cursor { Stay, Next, Skip, Jump(u16) }
CursorStay == [kind |-> "Stay"]
CursorNext == [kind |-> "Next"]
CursorSkip == [kind |-> "Skip"]
CursorJump(a) == [kind |-> "Jump", address |-> a]
NoCursor == [kind |-> "None"]

\* The Program struct as one value (the rng is an input of run()).
Program ==
    [memory |-> memory, v |-> v, i |-> i, delay_timer |-> delay_timer,
     sound_timer |-> sound_timer, program_counter |-> program_counter,
     stack_pointer |-> stack_pointer, keypad |-> keypad, screen |-> screen,
     stack |-> stack]

BlankScreen == [r \in 0..31 |-> [c \in 0..63 |-> FALSE]]

\* Program::new()
New ==
    [memory |-> [a \in 0..4095 |-> IF a < Len(SPRITES) THEN SPRITES[a + 1] ELSE 0],
     v |-> [r \in 0..15 |-> 0],
     i |-> 0,
     delay_timer |-> 0,
     sound_timer |-> 0,
     program_counter |-> 512,      \* 0x200
     stack_pointer |-> 0,
     keypad |-> [k \in 0..15 |-> FALSE],
     screen |-> BlankScreen,
     stack |-> [k \in 0..15 |-> 0]]

\* A load that copies the data and leaves the bytes behind them alone.
loadNoZeroFill(program, data) ==
    LET len == Len(data)
    IN [program EXCEPT !.memory =
          [a \in 0..4095 |->
              IF a >= 512 /\ a - 512 < len THEN data[a - 512 + 1]
              ELSE program.memory[a]]]

\* Program::load(data): data chained with zeroes, the first 4096 - 0x200
\* items written from 0x200 on.
load(program, data) ==
    LET len == Len(data)
    IN [program EXCEPT !.memory =
          [a \in 0..4095 |->
              IF a < 512 THEN program.memory[a]
              ELSE IF a - 512 < len THEN data[a - 512 + 1]
              ELSE 0]]

\* Panic messages: the text, then the values formatted into it.
NoMessage == << >>
IndexOutOfBounds == <<"index out of bounds">>
SubtractOverflow == <<"attempt to subtract with overflow">>
AddOverflow == <<"attempt to add with overflow">>

\* What a handler hands back: the Program as it left it, and either the
\* Cursor it returned or the panic that ended it.
Ok(program, c) ==
    [program |-> program, cursor |-> c, panicked |-> FALSE,
     message |-> NoMessage]

Panic(program, msg) ==
    [program |-> program, cursor |-> NoCursor, panicked |-> TRUE, message |-> msg]


Flag(b) == IF b THEN 1 ELSE 0

---------------------------------------------------------------------------
(* The instruction handlers: each is the run() of the struct it is named   *)
(* after; self is the decoded instruction, program the Program it is given.*)

\* A clear that leaves the display as it is.
ClearKeeping(self, program) ==
    Ok(program, CursorNext)
Clear(self, program) ==
    Ok([program EXCEPT !.screen = BlankScreen], CursorNext)

\* A return that reads stack[stack_pointer] before it decrements.
ReturnSubroutineReadFirst(self, program) ==
    IF program.stack_pointer >= 16 THEN Panic(program, IndexOutOfBounds)
    ELSE IF program.stack_pointer = 0 /\ overflow_checks
    THEN Panic(program, SubtractOverflow)
    ELSE Ok([program EXCEPT !.stack_pointer = (program.stack_pointer + 255) % 256],
            CursorJump(program.stack[program.stack_pointer]))

\* program.stack_pointer -= 1 on a u8: panics at 0 with overflow checks on,
\* wraps to 255 without them; then stack[stack_pointer] is bounds-checked.
ReturnSubroutine(self, program) ==
    IF program.stack_pointer = 0 /\ overflow_checks
    THEN Panic(program, SubtractOverflow)
    ELSE LET sp == (program.stack_pointer + 255) % 256
             p1 == [program EXCEPT !.stack_pointer = sp]
         IN IF sp >= 16 THEN Panic(p1, IndexOutOfBounds)
            ELSE Ok(p1, CursorJump(p1.stack[sp]))

JumpTo(self, program) ==
    Ok(program, CursorJump(self.address))

\* A call that indexes the stack modulo its length.
CallSubroutineWrapping(self, program) ==
    LET p1 == [program EXCEPT
                  !.stack[program.stack_pointer % 16] =
                      U16(program.program_counter + 2)]
    IN Ok([p1 EXCEPT !.stack_pointer = U8(p1.stack_pointer + 1)],
          CursorJump(self.address))

\* A call that pushes the address of the call itself.
CallSubroutineStoringPc(self, program) ==
    IF program.stack_pointer >= 16
    THEN Panic(program, IndexOutOfBounds)
    ELSE LET p1 == [program EXCEPT
                      !.stack[program.stack_pointer] = program.program_counter]
         IN Ok([p1 EXCEPT !.stack_pointer = U8(p1.stack_pointer + 1)],
               CursorJump(self.address))

\* stack[stack_pointer] = program_counter + 2 (the sum first, then the
\* bounds-checked store), then stack_pointer += 1.
CallSubroutine(self, program) ==
    IF program.program_counter + 2 > 65535 /\ overflow_checks
    THEN Panic(program, AddOverflow)
    ELSE IF program.stack_pointer >= 16
    THEN Panic(program, IndexOutOfBounds)
    ELSE LET p1 == [program EXCEPT
                      !.stack[program.stack_pointer] =
                          U16(program.program_counter + 2)]
         IN IF p1.stack_pointer + 1 > 255 /\ overflow_checks
            THEN Panic(p1, AddOverflow)
            ELSE Ok([p1 EXCEPT !.stack_pointer = U8(p1.stack_pointer + 1)],
                    CursorJump(self.address))

SkipEqual(self, program) ==
    Ok(program, IF program.v[self.x] = self.value THEN CursorSkip ELSE CursorNext)

SkipNotEqual(self, program) ==
    Ok(program, IF program.v[self.x] # self.value THEN CursorSkip ELSE CursorNext)

SkipRegisterEqual(self, program) ==
    Ok(program, IF program.v[self.x] = program.v[self.y] THEN CursorSkip ELSE CursorNext)

SetRegister(self, program) ==
    Ok([program EXCEPT !.v[self.x] = self.value], CursorNext)

\* An addition of kk that also reports its carry in VF.
AddRegisterWithCarry(self, program) ==
    LET sum == program.v[self.x] + self.value
        p1 == [program EXCEPT !.v[self.x] = U8(sum)]
    IN Ok([p1 EXCEPT !.v[15] = Flag(sum > 255)], CursorNext)

\* (v[idx] as u16 + value as u16) as u8
AddRegister(self, program) ==
    Ok([program EXCEPT !.v[self.x] = U8(U16(program.v[self.x] + self.value))],
       CursorNext)

SetVxToVy(self, program) ==
    Ok([program EXCEPT !.v[self.x] = program.v[self.y]], CursorNext)

SetVxToVxOrVy(self, program) ==
    Ok([program EXCEPT !.v[self.x] = BitOr(program.v[self.x], program.v[self.y])],
       CursorNext)

SetVxToVxAndVy(self, program) ==
    Ok([program EXCEPT !.v[self.x] = BitAnd(program.v[self.x], program.v[self.y])],
       CursorNext)

SetVxToVxXorVy(self, program) ==
    Ok([program EXCEPT !.v[self.x] = BitXor(program.v[self.x], program.v[self.y])],
       CursorNext)

\* A carry test that is off by one: result >= 0xFF.
SetVxToVxAndVyCarryOffByOne(self, program) ==
    LET result == program.v[self.x] + program.v[self.y]
        p1 == [program EXCEPT !.v[self.x] = U8(result)]
    IN Ok([p1 EXCEPT !.v[15] = Flag(result >= 255)], CursorNext)

\* result = v[x] as u16 + v[y] as u16; v[x] = result as u8; then v[0xF].
SetVxToVxAndVyCarry(self, program) ==
    LET result == program.v[self.x] + program.v[self.y]
        p1 == [program EXCEPT !.v[self.x] = U8(result)]
    IN Ok([p1 EXCEPT !.v[15] = Flag(result > 255)], CursorNext)

\* v[0xF] is written first; the subtraction then reads the registers again.
SetVxToVxSubVy(self, program) ==
    LET p1 == [program EXCEPT
                 !.v[15] = Flag(program.v[self.x] > program.v[self.y])]
    IN Ok([p1 EXCEPT !.v[self.x] = WrappingSub(p1.v[self.x], p1.v[self.y])],
          CursorNext)

SetVxToVxShr(self, program) ==
    LET p1 == [program EXCEPT !.v[15] = BitAnd(program.v[self.x], 1)]
    IN Ok([p1 EXCEPT !.v[self.x] = Shr(p1.v[self.x], 1)], CursorNext)

SetVxToVySubVx(self, program) ==
    LET p1 == [program EXCEPT
                 !.v[15] = Flag(program.v[self.y] > program.v[self.x])]
    IN Ok([p1 EXCEPT !.v[self.x] = WrappingSub(p1.v[self.y], p1.v[self.x])],
          CursorNext)

SetVxToVxShl(self, program) ==
    LET p1 == [program EXCEPT !.v[15] = BitAnd(Shr(program.v[self.x], 7), 1)]
    IN Ok([p1 EXCEPT !.v[self.x] = Shl(p1.v[self.x], 1, 8)], CursorNext)

SkipRegisterNotEqual(self, program) ==
    Ok(program, IF program.v[self.x] # program.v[self.y] THEN CursorSkip ELSE CursorNext)

SetIToAddress(self, program) ==
    Ok([program EXCEPT !.i = self.address], CursorNext)

\* v[0] as u16 + address: at most 0xFF + 0xFFF, no overflow.
JumpToPlusV0(self, program) ==
    Ok(program, CursorJump(program.v[0] + self.address))

\* rng.gen::<u8>() & value; random is the byte the generator yields.
SetVxToRandomAndValue(self, program, random) ==
    Ok([program EXCEPT !.v[self.x] = BitAnd(random, self.value)], CursorNext)

\* A draw that ors the sprite onto the display instead of xor-ing it.
DrawBitOr(self, program, y, byte, bit) ==
    LET x == (program.v[self.x] + bit) % 64
        b == BitAnd(Shr(byte, 7 - bit), 1) = 1
    IN [program EXCEPT
          !.v[15] = BitOr(@, Flag(b /\ program.screen[y][x])),
          !.screen[y][x] = (@ \/ b)]

\* One pass of the inner loop of Draw::run: x is computed from v[self.x] as
\* it is now, the collision is or-ed into v[0xF], the cell is xor-ed.
DrawBit(self, program, y, byte, bit) ==
    LET x == (program.v[self.x] + bit) % 64
        b == BitAnd(Shr(byte, 7 - bit), 1) = 1
    IN [program EXCEPT
          !.v[15] = BitOr(@, Flag(b /\ program.screen[y][x])),
          !.screen[y][x] = (@ # b)]

RECURSIVE DrawBits(_, _, _, _, _)
DrawBits(self, program, y, byte, bit) ==
    IF bit = 8 THEN program
    ELSE DrawBits(self, DrawBit(self, program, y, byte, bit), y, byte, bit + 1)

\* The outer loop: y from v[self.y] as it is now, then the bounds-checked
\* read of memory[i + byte], then the eight bits.
RECURSIVE DrawRows(_, _, _)
DrawRows(self, program, row) ==
    IF row = self.n THEN Ok(program, CursorNext)
    ELSE LET y == (program.v[self.y] + row) % 32
         IN IF program.i + row > 4095 THEN Panic(program, IndexOutOfBounds)
            ELSE DrawRows(self,
                          DrawBits(self, program, y,
                                   program.memory[program.i + row], 0),
                          row + 1)

Draw(self, program) ==
    DrawRows(self, [program EXCEPT !.v[15] = 0], 0)

\* keypad[v[x] as usize] is bounds-checked.
SkipKeyPressed(self, program) ==
    IF program.v[self.x] >= 16 THEN Panic(program, IndexOutOfBounds)
    ELSE Ok(program,
            IF program.keypad[program.v[self.x]] THEN CursorSkip ELSE CursorNext)

SkipKeyNotPressed(self, program) ==
    IF program.v[self.x] >= 16 THEN Panic(program, IndexOutOfBounds)
    ELSE Ok(program,
            IF ~program.keypad[program.v[self.x]] THEN CursorSkip ELSE CursorNext)

SetVxToDelayTimer(self, program) ==
    Ok([program EXCEPT !.v[self.x] = program.delay_timer], CursorNext)

\* A search that keeps the last key that is down instead of the first.
RECURSIVE FindKeyLast(_, _)
FindKeyLast(keys, k) ==
    IF k = 16 THEN 16
    ELSE LET later == FindKeyLast(keys, k + 1)
         IN IF later < 16 THEN later
            ELSE IF keys[k] THEN k
            ELSE 16

\* keypad.iter().enumerate().find(|&(_, &value)| value): the first index,
\* from k on, whose key is down; 16 when there is none.
RECURSIVE FindKey(_, _)
FindKey(keys, k) ==
    IF k = 16 THEN 16
    ELSE IF keys[k] THEN k
    ELSE FindKey(keys, k + 1)

\* A wait that takes the key it found off the keypad.
SetVxToNextKeyPressConsuming(self, program) ==
    LET found == FindKey(program.keypad, 0)
    IN IF found < 16
       THEN Ok([program EXCEPT !.v[self.x] = U8(found),
                               !.keypad[found] = FALSE], CursorNext)
       ELSE Ok(program, CursorStay)

\* position(|&v| v) over the keypad as it is at this call.
SetVxToNextKeyPress(self, program) ==
    LET found == FindKey(program.keypad, 0)
    IN IF found < 16
       THEN Ok([program EXCEPT !.v[self.x] = U8(found)], CursorNext)
       ELSE Ok(program, CursorStay)

SetDelayTimerToVx(self, program) ==
    Ok([program EXCEPT !.delay_timer = program.v[self.x]], CursorNext)

SetSoundTimerToVx(self, program) ==
    Ok([program EXCEPT !.sound_timer = program.v[self.x]], CursorNext)

\* An addition to I that keeps twelve bits of the sum.
AddVxToIMasked(self, program) ==
    Ok([program EXCEPT !.i = (program.i + program.v[self.x]) % 4096],
       CursorNext)

\* program.i += v[x] as u16: a u16 addition.
AddVxToI(self, program) ==
    LET sum == program.i + program.v[self.x]
    IN IF sum > 65535 /\ overflow_checks THEN Panic(program, AddOverflow)
       ELSE Ok([program EXCEPT !.i = U16(sum)], CursorNext)

SetIToSpriteLocation(self, program) ==
    Ok([program EXCEPT !.i = U16(program.v[self.x] * 5)], CursorNext)

\* Three bounds-checked stores, one after the other.
\* A BCD store whose indices wrap around at the end of the memory.
StoreBCDWrapping(self, program) ==
    LET idx == program.i
        val == program.v[self.x]
    IN Ok([program EXCEPT !.memory[idx % 4096] = val \div 100,
                          !.memory[(idx + 1) % 4096] = (val % 100) \div 10,
                          !.memory[(idx + 2) % 4096] = val % 10],
          CursorNext)

StoreBCD(self, program) ==
    LET idx == program.i
        val == program.v[self.x]
    IN IF idx > 4095 THEN Panic(program, IndexOutOfBounds)
       ELSE LET p1 == [program EXCEPT !.memory[idx] = val \div 100]
            IN IF idx + 1 > 4095 THEN Panic(p1, IndexOutOfBounds)
               ELSE LET p2 == [p1 EXCEPT !.memory[idx + 1] = (val % 100) \div 10]
                    IN IF idx + 2 > 4095 THEN Panic(p2, IndexOutOfBounds)
                       ELSE Ok([p2 EXCEPT !.memory[idx + 2] = val % 10],
                               CursorNext)

RECURSIVE StoreRegistersFrom(_, _, _)
StoreRegistersFrom(self, program, k) ==
    IF k > self.x THEN Ok(program, CursorNext)
    ELSE IF program.i + k > 4095 THEN Panic(program, IndexOutOfBounds)
    ELSE StoreRegistersFrom(
             self, [program EXCEPT !.memory[program.i + k] = program.v[k]], k + 1)

\* A store that leaves I behind the last byte written.
StoreRegistersAdvancingI(self, program) ==
    LET r == StoreRegistersFrom(self, program, 0)
    IN IF r.panicked THEN r
       ELSE Ok([r.program EXCEPT !.i = U16(program.i + self.x + 1)], CursorNext)

StoreRegisters(self, program) ==
    StoreRegistersFrom(self, program, 0)

RECURSIVE ReadRegistersFrom(_, _, _)
ReadRegistersFrom(self, program, k) ==
    IF k > self.x THEN Ok(program, CursorNext)
    ELSE IF program.i + k > 4095 THEN Panic(program, IndexOutOfBounds)
    ELSE ReadRegistersFrom(
             self, [program EXCEPT !.v[k] = program.memory[program.i + k]], k + 1)

ReadRegisters(self, program) ==
    ReadRegistersFrom(self, program, 0)

\* An invalid instruction that is skipped silently.
InvalidInstructionSkipped(self, program) ==
    Ok(program, CursorNext)

\* panic!("invalid instruction ({:x}, {:x}, {:x}, {:x})", a, b, c, d)
InvalidInstruction(self, program) ==
    Panic(program, <<"invalid instruction", self.a, self.b, self.c, self.d>>)

\* Instruction::run: the match over the variants.
InstructionRun(self, program, random) ==
    CASE self.op = "Clear" -> Clear(self, program)
      [] self.op = "ReturnSubroutine" -> ReturnSubroutine(self, program)
      [] self.op = "JumpTo" -> JumpTo(self, program)
      [] self.op = "CallSubroutine" -> CallSubroutine(self, program)
      [] self.op = "SkipEqual" -> SkipEqual(self, program)
      [] self.op = "SkipNotEqual" -> SkipNotEqual(self, program)
      [] self.op = "SkipRegisterEqual" -> SkipRegisterEqual(self, program)
      [] self.op = "SetRegister" -> SetRegister(self, program)
      [] self.op = "AddRegister" -> AddRegister(self, program)
      [] self.op = "SetVxToVy" -> SetVxToVy(self, program)
      [] self.op = "SetVxToVxOrVy" -> SetVxToVxOrVy(self, program)
      [] self.op = "SetVxToVxAndVy" -> SetVxToVxAndVy(self, program)
      [] self.op = "SetVxToVxXorVy" -> SetVxToVxXorVy(self, program)
      [] self.op = "SetVxToVxAndVyCarry" -> SetVxToVxAndVyCarry(self, program)
      [] self.op = "SetVxToVxSubVy" -> SetVxToVxSubVy(self, program)
      [] self.op = "SetVxToVxShr" -> SetVxToVxShr(self, program)
      [] self.op = "SetVxToVySubVx" -> SetVxToVySubVx(self, program)
      [] self.op = "SetVxToVxShl" -> SetVxToVxShl(self, program)
      [] self.op = "SkipRegisterNotEqual" -> SkipRegisterNotEqual(self, program)
      [] self.op = "SetIToAddress" -> SetIToAddress(self, program)
      [] self.op = "JumpToPlusV0" -> JumpToPlusV0(self, program)
      [] self.op = "SetVxToRandomAndValue" ->
             SetVxToRandomAndValue(self, program, random)
      [] self.op = "Draw" -> Draw(self, program)
      [] self.op = "SkipKeyPressed" -> SkipKeyPressed(self, program)
      [] self.op = "SkipKeyNotPressed" -> SkipKeyNotPressed(self, program)
      [] self.op = "SetVxToDelayTimer" -> SetVxToDelayTimer(self, program)
      [] self.op = "SetVxToNextKeyPress" -> SetVxToNextKeyPress(self, program)
      [] self.op = "SetDelayTimerToVx" -> SetDelayTimerToVx(self, program)
      [] self.op = "SetSoundTimerToVx" -> SetSoundTimerToVx(self, program)
      [] self.op = "AddVxToI" -> AddVxToI(self, program)
      [] self.op = "SetIToSpriteLocation" -> SetIToSpriteLocation(self, program)
      [] self.op = "StoreBCD" -> StoreBCD(self, program)
      [] self.op = "StoreRegisters" -> StoreRegisters(self, program)
      [] self.op = "ReadRegisters" -> ReadRegisters(self, program)
      [] self.op = "InvalidInstruction" -> InvalidInstruction(self, program)

---------------------------------------------------------------------------
(* Program::instruction and Program::run.                                  *)

\* &self.memory[counter..=counter+1] is bounds-checked.
CanFetch(program) == program.program_counter + 1 <= 4095

\* ((code[0] as u16) << 8) | (code[1] as u16)
FetchCode(program) ==
    BitOr(Shl(program.memory[program.program_counter], 8, 16),
          program.memory[program.program_counter + 1])

\* A run() whose Skip arm advances by one instruction only.
ApplyCursorSkipAsNext(program, c) ==
    CASE c.kind = "Stay" -> program
      [] c.kind = "Next" ->
             [program EXCEPT !.program_counter = U16(program.program_counter + 2)]
      [] c.kind = "Skip" ->
             [program EXCEPT !.program_counter = U16(program.program_counter + 2)]
      [] c.kind = "Jump" -> [program EXCEPT !.program_counter = c.address]

\* A run() whose Next arm counts instructions, not bytes.
ApplyCursorNextByOne(program, c) ==
    CASE c.kind = "Stay" -> program
      [] c.kind = "Next" ->
             [program EXCEPT !.program_counter = U16(program.program_counter + 1)]
      [] c.kind = "Skip" ->
             [program EXCEPT !.program_counter = U16(program.program_counter + 4)]
      [] c.kind = "Jump" -> [program EXCEPT !.program_counter = c.address]

\* The match on the Cursor in Program::run.
ApplyCursor(program, c) ==
    CASE c.kind = "Stay" -> program
      [] c.kind = "Next" ->
             [program EXCEPT !.program_counter = U16(program.program_counter + 2)]
      [] c.kind = "Skip" ->
             [program EXCEPT !.program_counter = U16(program.program_counter + 4)]
      [] c.kind = "Jump" -> [program EXCEPT !.program_counter = c.address]

\* The history of open calls: a completed CallSubroutine adds the address
\* of the call instruction and the stack pointer it found, a completed
\* ReturnSubroutine drops the newest.
CallsAfter(ins, done) ==
    IF ~done THEN calls
    ELSE IF ins.op = "CallSubroutine"
        THEN Append(calls, [pc |-> program_counter, sp |-> stack_pointer])
    ELSE IF ins.op = "ReturnSubroutine" /\ Len(calls) > 0
        THEN SubSeq(calls, 1, Len(calls) - 1)
    ELSE calls

\* The display as the set of its lit cells <<row, column>>.
LitCells(scr) ==
    {cell \in (0..31) \X (0..63) : scr[cell[1]][cell[2]]}

\* The bytes the random generator may yield in a run.
RandomBytes == {0, 85, 170, 255}

SetProgram(p) ==
    /\ memory' = p.memory
    /\ v' = p.v
    /\ i' = p.i
    /\ delay_timer' = p.delay_timer
    /\ sound_timer' = p.sound_timer
    /\ program_counter' = p.program_counter
    /\ stack_pointer' = p.stack_pointer
    /\ keypad' = p.keypad
    /\ screen' = p.screen
    /\ stack' = p.stack

\* Program::run: fetch (the slice is bounds-checked), decode, run the
\* instruction, apply its Cursor.  A panic inside the handler leaves the
\* Program as the handler left it; the program counter is then not moved.
Run ==
    /\ ~panicked
    /\ IF ~CanFetch(Program)
       THEN /\ panicked' = TRUE
            /\ message' = IndexOutOfBounds
            /\ UNCHANGED <<program_vars, code, decoded, cursor, calls,
                           screen_before>>
       ELSE LET w == FetchCode(Program)
                ins == InstructionFrom(w)
            IN \E random \in (IF ins.op = "SetVxToRandomAndValue"
                              THEN RandomBytes ELSE {0}) :
                 LET r == InstructionRun(ins, Program, random)
                 IN /\ SetProgram(IF r.panicked THEN r.program
                                  ELSE ApplyCursor(r.program, r.cursor))
                    /\ code' = w
                    /\ decoded' = ins
                    /\ cursor' = r.cursor
                    /\ panicked' = r.panicked
                    /\ message' = r.message
                    /\ calls' = CallsAfter(ins, ~r.panicked)
                    /\ screen_before' = IF ins.op = "Draw"
                                        THEN LitCells(screen)
                                        ELSE screen_before
    /\ UNCHANGED <<overflow_checks, loaded>>

\* The key numbers the host passes to keydown and keyup.
KeyInputs == {7, 15, 16}

\* A keydown that masks the key number to four bits.
KeyDownMasked(key) ==
    /\ ~panicked
    /\ keypad' = [keypad EXCEPT ![key % 16] = TRUE]
    /\ UNCHANGED <<memory, v, i, delay_timer, sound_timer, program_counter,
                   stack_pointer, screen, stack, overflow_checks, code,
                   decoded, cursor, loaded, calls, screen_before, panicked,
                   message>>

\* Program::keydown(key): keypad[key] = true, bounds-checked.
KeyDown(key) ==
    /\ ~panicked
    /\ IF key >= 16
       THEN /\ panicked' = TRUE
            /\ message' = IndexOutOfBounds
            /\ UNCHANGED keypad
       ELSE /\ keypad' = [keypad EXCEPT ![key] = TRUE]
            /\ UNCHANGED <<panicked, message>>
    /\ UNCHANGED <<memory, v, i, delay_timer, sound_timer, program_counter,
                   stack_pointer, screen, stack, overflow_checks, code,
                   decoded, cursor, loaded, calls, screen_before>>

\* Program::keyup(key): keypad[key] = false, bounds-checked.
KeyUp(key) ==
    /\ ~panicked
    /\ IF key >= 16
       THEN /\ panicked' = TRUE
            /\ message' = IndexOutOfBounds
            /\ UNCHANGED keypad
       ELSE /\ keypad' = [keypad EXCEPT ![key] = FALSE]
            /\ UNCHANGED <<panicked, message>>
    /\ UNCHANGED <<memory, v, i, delay_timer, sound_timer, program_counter,
                   stack_pointer, screen, stack, overflow_checks, code,
                   decoded, cursor, loaded, calls, screen_before>>

\* A decrement without the guards: a u8 at 0 wraps to 255.
DecrementTimersUnguarded ==
    /\ ~panicked
    /\ delay_timer' = (delay_timer + 255) % 256
    /\ sound_timer' = (sound_timer + 255) % 256
    /\ UNCHANGED <<memory, v, i, program_counter, stack_pointer, keypad,
                   screen, stack, overflow_checks, panicked, message, code,
                   decoded, cursor, loaded, calls, screen_before>>

\* The wasm binding's decrement_timers().
DecrementTimers ==
    /\ ~panicked
    /\ delay_timer' = IF delay_timer > 0 THEN delay_timer - 1 ELSE delay_timer
    /\ sound_timer' = IF sound_timer > 0 THEN sound_timer - 1 ELSE sound_timer
    /\ UNCHANGED <<memory, v, i, program_counter, stack_pointer, keypad,
                   screen, stack, overflow_checks, panicked, message, code,
                   decoded, cursor, loaded, calls, screen_before>>

---------------------------------------------------------------------------
(* The programs the host loads.                                            *)

\* The bytes of a sequence of 16-bit words, high byte first.
Bytes(words) ==
    [j \in 1..(2 * Len(words)) |->
        IF j % 2 = 1 THEN words[(j + 1) \div 2] \div 256
        ELSE words[j \div 2] % 256]

\* The deepest chain of nested calls a program makes: one more than the
\* stack holds.
MaxDepth == 17

\* The largest value a program writes to a timer.
MaxTimer == 2

\* d nested calls, then returns: the call at 0x200 + 4k goes to
\* 0x200 + 4(k + 1), a return (00EE) follows every call, and the innermost
\* target holds returns only.
ChainRom(d) ==
    Bytes([j \in 1..(2 * (d + 1)) |->
              IF j % 2 = 1 /\ (j - 1) \div 2 < d
              THEN 8192 + 512 + 4 * ((j - 1) \div 2 + 1)
              ELSE 238])

\* 2300 at 0x200 and 00EE at 0x300.
Call300Rom ==
    [j \in 1..258 |-> IF j = 1 THEN 35 ELSE IF j = 258 THEN 238 ELSE 0]

WordRoms ==
    { <<24586, 28677>>,                \* 600A 7005
      \* 6005 3005 0000 4005 5010 9010 0000 B20B F004 1200
      <<24581, 12293, 0, 16389, 20496, 36880, 0, 45579, 61444, 4608>>,
      <<62212, 4608>>,                 \* F304 1200
      <<61450>>, <<62218>>, <<65290>>, \* F00A  F30A  FF0A
      <<0>>, <<291>>, <<20769>>,       \* 0000  0123  5121
      <<32776>>, <<57344>>, <<65535>>, \* 8008  E000  FFFF
      <<8191>>,                        \* 1FFF
      <<24831, 49167, 4608>>,          \* 60FF C00F 1200
      \* 6000 6100 A000 D015 D015 00E0 1206
      <<24576, 24832, 40960, 53269, 53269, 224, 4614>>,
      \* 6x(MaxTimer) F015 F018 F007 1206
      <<24576 + MaxTimer, 61461, 61464, 61447, 4614>>,
      <<24592, 57502>>, <<24592, 57505>>,    \* 6010 E09E   6010 E0A1
      <<24583, 57502, 57505, 57505>>,        \* 6007 E09E E0A1 E0A1
      <<24831, 49151>>,                      \* 60FF BFFF
      <<4609>>,                              \* 1201
      <<45055, 24831, 61470, 61481>>,        \* AFFF 60FF F01E F029
      <<40960, 53269, 224>>,                 \* A000 D015 00E0
      <<62212, 62724>> }                     \* F304 F504

\* A program that fills the memory from 0x200 on: 1FFE at 0x200 and the
\* word w in the last two bytes, 0xFFE and 0xFFF.
EndRom(w) ==
    [j \in 1..3584 |->
        IF j = 1 THEN 31 ELSE IF j = 2 THEN 254
        ELSE IF j = 3583 THEN w \div 256 ELSE IF j = 3584 THEN w % 256
        ELSE 0]

Roms ==
    {ChainRom(d) : d \in 0..MaxDepth}
        \cup {Call300Rom}
        \cup {EndRom(24576), EndRom(12288)}       \* 6000, 3000 at 0xFFE
        \cup {Bytes(ws) : ws \in WordRoms}

---------------------------------------------------------------------------
(* The machine: a Program is constructed, loaded once, and then driven by  *)
(* the host's run, keydown, keyup and decrement_timers calls.              *)

Init ==
    /\ memory = New.memory
    /\ v = New.v
    /\ i = New.i
    /\ delay_timer = New.delay_timer
    /\ sound_timer = New.sound_timer
    /\ program_counter = New.program_counter
    /\ stack_pointer = New.stack_pointer
    /\ keypad = New.keypad
    /\ screen = New.screen
    /\ stack = New.stack
    /\ overflow_checks \in BOOLEAN
    /\ panicked = FALSE
    /\ message = NoMessage
    /\ code = 0
    /\ decoded = NoInstruction
    /\ cursor = NoCursor
    /\ loaded = FALSE
    /\ calls = << >>
    /\ screen_before = {}

\* Program::load(data), called once on the new Program.
Load(data) ==
    /\ ~panicked
    /\ ~loaded
    /\ SetProgram(load(Program, data))
    /\ loaded' = TRUE
    /\ UNCHANGED <<overflow_checks, panicked, message, code, decoded, cursor,
                   calls, screen_before>>

Next ==
    \/ \E data \in Roms : Load(data)
    \/ Run
    \/ \E key \in KeyInputs : KeyDown(key)
    \/ \E key \in KeyInputs : KeyUp(key)
    \/ DecrementTimers

Spec == Init /\ [][Next]_vars

---------------------------------------------------------------------------
(* Properties of the machine (specification Spec).                         *)

\* The word at the program counter, high byte first.
WordAtPc == memory[program_counter] * 256 + memory[program_counter + 1]

\* A run() that returned: the step fetched, decoded and ran an instruction
\* and applied its Cursor.
RunReturned == Run /\ ~panicked'

\* C1: run() executes the one instruction whose word is memory[PC] (high
\* byte) and memory[PC + 1] (low byte) and moves the program counter by
\* the Cursor it returned and in no other way: Stay leaves it, Next adds 2,
\* Skip adds 4, Jump(a) sets it to a; a run() that panics leaves it.
C1_RunAppliesCursor ==
    [][/\ RunReturned =>
            /\ code' = WordAtPc
            /\ cursor'.kind \in {"Stay", "Next", "Skip", "Jump"}
            /\ cursor'.kind = "Stay" => program_counter' = program_counter
            /\ cursor'.kind = "Next" => program_counter' = program_counter + 2
            /\ cursor'.kind = "Skip" => program_counter' = program_counter + 4
            /\ cursor'.kind = "Jump" => program_counter' = cursor'.address
       /\ (Run /\ panicked') => program_counter' = program_counter
      ]_vars

\* 3005 at 0x202 with V0 = 5 has skipped to 0x206.
C1_Witness ==
    /\ ~panicked
    /\ code = 12293
    /\ cursor = CursorSkip
    /\ program_counter = 518

\* C3 (the claim as stated): a step at a word Fx0A decodes it to the
\* wait-for-key instruction on register x and does not end in the
\* invalid-instruction panic.
C3_Fx0AIsWaitForKey ==
    (decoded # NoInstruction /\ code \div 4096 = 15 /\ code % 256 = 10) =>
        /\ decoded = [op |-> "SetVxToNextKeyPress", x |-> (code \div 256) % 16]
        /\ ~(panicked /\ message # NoMessage /\ message[1] = "invalid instruction")

\* C5: a ReturnSubroutine that completes sets the program counter to the
\* address of the newest call instruction still open plus 2 and restores
\* the stack pointer that call found, so nested calls return in
\* last-in-first-out order; a CallSubroutine that completes jumps to its
\* target with the stack pointer one higher.
C5_ReturnsMatchCalls ==
    [][/\ (RunReturned /\ decoded'.op = "ReturnSubroutine") =>
            /\ Len(calls) > 0
            /\ program_counter' = calls[Len(calls)].pc + 2
            /\ stack_pointer' = calls[Len(calls)].sp
       /\ (RunReturned /\ decoded'.op = "CallSubroutine") =>
            /\ program_counter' = decoded'.address
            /\ stack_pointer' = stack_pointer + 1
      ]_vars

\* Sixteen nested calls have all returned: the outermost return came back
\* to 0x202 with the stack pointer at 0 again.
C5_Witness ==
    /\ ~panicked
    /\ decoded = [op |-> "ReturnSubroutine"]
    /\ program_counter = 514
    /\ stack_pointer = 0
    /\ stack[15] = 512 + 4 * 15 + 2
    /\ calls = << >>

NoKeyDown == \A k \in 0..15 : ~keypad[k]

\* C6: a run() at the wait-for-key instruction on register x returns Stay
\* and changes nothing of the Program while no key is down; with a key down
\* it stores the lowest index of the keys that are down in Vx, touches no
\* other register and nothing else, and advances the program counter by 2.
C6_WaitForKey ==
    [][(RunReturned /\ decoded'.op = "SetVxToNextKeyPress") =>
          IF NoKeyDown
          THEN /\ cursor' = CursorStay
               /\ UNCHANGED program_vars
          ELSE /\ cursor' = CursorNext
               /\ keypad[v'[decoded'.x]]
               /\ \A k \in 0..15 : keypad[k] => v'[decoded'.x] <= k
               /\ \A r \in 0..15 : r # decoded'.x => v'[r] = v[r]
               /\ program_counter' = program_counter + 2
               /\ UNCHANGED <<memory, i, delay_timer, sound_timer,
                              stack_pointer, keypad, screen, stack>>
      ]_vars

\* F304 has completed with keys 7 and 15 down: V3 = 7.
C6_Witness ==
    /\ ~panicked
    /\ code = 62212
    /\ cursor = CursorNext
    /\ program_counter = 514
    /\ keypad[7] /\ keypad[15]
    /\ v[3] = 7

\* C10: a run() whose word decodes to InvalidInstruction ends in a panic
\* that names the four nibbles of the word and leaves the whole Program as
\* it was, the program counter included; after a panic nothing runs any
\* more.
C10_InvalidInstructionPanics ==
    [][/\ (Run /\ CanFetch(Program)
              /\ InstructionFrom(WordAtPc).op = "InvalidInstruction") =>
            /\ panicked'
            /\ message' = <<"invalid instruction">> \o Nibbles(WordAtPc)
            /\ UNCHANGED program_vars
       /\ ~panicked
      ]_vars

\* 5121 at 0x200 has ended the run with its nibbles in the message.
C10_Witness ==
    /\ panicked
    /\ message = <<"invalid instruction", 5, 1, 2, 1>>
    /\ program_counter = 512
    /\ memory[512] = 81 /\ memory[513] = 33

\* The instruction a run() is about to fetch and decode.
InstructionAtPc == InstructionFrom(WordAtPc)

\* C11: a CallSubroutine run with stack_pointer = 16 ends in a panic (the
\* bounds check of stack[16], reported with its message): no stack entry
\* is written, stack_pointer stays 16, the program counter does not move
\* to the target, and nothing else of the Program changes.
C11_FullStackCallPanics ==
    [][(Run /\ CanFetch(Program) /\ stack_pointer = 16
            /\ InstructionAtPc.op = "CallSubroutine") =>
          /\ panicked'
          /\ message' = IndexOutOfBounds
          /\ stack' = stack
          /\ stack_pointer' = 16
          /\ program_counter' = program_counter
          /\ UNCHANGED program_vars
      ]_vars

\* The seventeenth nested call, at 0x240 with sixteen calls open, has
\* ended the run.
C11_Witness ==
    /\ panicked
    /\ message = IndexOutOfBounds
    /\ stack_pointer = 16
    /\ Len(calls) = 16
    /\ program_counter = 512 + 4 * 16
    /\ WordAtPc \div 4096 = 2
    /\ stack[0] = 514

\* C12 (the claim as stated): a ReturnSubroutine run with stack_pointer = 0
\* ends in an error that leaves stack_pointer at 0 (no wrap to 255), reads
\* no return address and leaves the program counter and the stack alone.
C12_EmptyStackReturnPanics ==
    [][(Run /\ CanFetch(Program) /\ stack_pointer = 0
            /\ InstructionAtPc.op = "ReturnSubroutine") =>
          /\ panicked'
          /\ stack_pointer' = 0
          /\ program_counter' = program_counter
          /\ stack' = stack
      ]_vars

\* What keydown(key) (down = TRUE) or keyup(key) (down = FALSE) must do
\* according to C13.
KeyCallEffect(key, down) ==
    IF key < 16
    THEN /\ ~panicked'
         /\ keypad'[key] = down
         /\ \A k \in 0..15 : k # key => keypad'[k] = keypad[k]
         /\ UNCHANGED <<memory, v, i, delay_timer, sound_timer,
                        program_counter, stack_pointer, screen, stack>>
    ELSE /\ panicked'
         /\ message' = IndexOutOfBounds
         /\ UNCHANGED program_vars

\* C13: keydown(k) and keyup(k) with k in 0..15 set keypad[k] to true,
\* respectively false, and change nothing else; with k >= 16 the call is
\* refused (it ends in the bounds-check panic) and keypad, registers,
\* memory, stack, program counter, timers and display are unchanged.
C13_KeyCalls ==
    [][\A key \in KeyInputs :
          /\ KeyDown(key) => KeyCallEffect(key, TRUE)
          /\ KeyUp(key) => KeyCallEffect(key, FALSE)
      ]_vars

\* With key 7 down and nothing run yet, a key call with a number above 15
\* has been refused: key 7 is still down, key 15 still up.
C13_Witness ==
    /\ panicked
    /\ message = IndexOutOfBounds
    /\ loaded
    /\ decoded = NoInstruction
    /\ program_counter = 512
    /\ keypad[7]
    /\ ~keypad[15]

\* C14 (the claim as stated): the key skips complete without error for
\* every value of Vx; a value above 15 counts as a key that is not down
\* (SkipKeyPressed returns Next, SkipKeyNotPressed returns Skip), a value
\* in 0..15 skips exactly when keypad[Vx] is down, respectively up.
C14_KeySkipsAreTotal ==
    [][(Run /\ CanFetch(Program)
            /\ InstructionAtPc.op \in {"SkipKeyPressed", "SkipKeyNotPressed"}) =>
          LET k == v[InstructionAtPc.x]
              down == k < 16 /\ keypad[k]
          IN /\ ~panicked'
             /\ InstructionAtPc.op = "SkipKeyPressed" =>
                    cursor' = (IF down THEN CursorSkip ELSE CursorNext)
             /\ InstructionAtPc.op = "SkipKeyNotPressed" =>
                    cursor' = (IF down THEN CursorNext ELSE CursorSkip)
      ]_vars

\* C15 (the claim as stated): whenever run() is called the program
\* counter is at most 4094, so that both bytes of the instruction are
\* inside the memory.
C15_PcInsideMemory ==
    [][Run => program_counter <= 4094]_vars

\* C16 (the claim as stated): the program counter is even in every state.
C16_PcIsEven ==
    program_counter % 2 = 0

\* The program counter and every return address on the stack are even.
EvenState ==
    /\ program_counter % 2 = 0
    /\ \A k \in 0..15 : k < stack_pointer => stack[k] % 2 = 0

\* C16 (amended): the program counter is 0x200 at the start, and a run()
\* that returns keeps it and the return addresses on the stack even unless
\* it jumps to an odd target: Stay, Next, Skip and a return keep them even,
\* JumpTo and CallSubroutine set the program counter to nnn and
\* JumpToPlusV0 to V0 + nnn, whatever the parity (1201 leaves it odd).
C16_ParityLaw ==
    [][/\ ~loaded => program_counter = 512
       /\ (RunReturned /\ EvenState
              /\ (decoded'.op \in {"JumpTo", "CallSubroutine"} =>
                      decoded'.address % 2 = 0)
              /\ (decoded'.op = "JumpToPlusV0" =>
                      (v[0] + decoded'.address) % 2 = 0)) => EvenState'
       /\ (RunReturned /\ decoded'.op \in {"JumpTo", "CallSubroutine"}) =>
              program_counter' = decoded'.address
       /\ (RunReturned /\ decoded'.op = "JumpToPlusV0") =>
              program_counter' = v[0] + decoded'.address
      ]_vars

\* B20B with V0 = 5 has jumped to 0x210: odd operands, an even target.
C16_Witness ==
    /\ ~panicked
    /\ code = 45579
    /\ v[0] = 5
    /\ program_counter = 528

\* C17 (the claim as stated): I is at most 0xFFF in every state.
C17_IWithin12Bits ==
    i <= 4095

\* C17 (amended): I is 0 on a new Program; SetIToAddress sets it to nnn
\* (at most 0xFFF), SetIToSpriteLocation to 5 * Vx (at most 1275),
\* AddVxToI to the 16-bit sum I + Vx, which is not masked to 12 bits and
\* can exceed 0xFFF; no other instruction changes I.
C17_ILaw ==
    [][/\ ~loaded => i = 0
       /\ RunReturned =>
            /\ decoded'.op = "SetIToAddress" =>
                   i' = decoded'.address /\ i' <= 4095
            /\ decoded'.op = "SetIToSpriteLocation" =>
                   i' = 5 * v[decoded'.x] /\ i' <= 1275
            /\ decoded'.op = "AddVxToI" =>
                   i' = (i + v[decoded'.x]) % 65536
            /\ decoded'.op \notin {"SetIToAddress", "SetIToSpriteLocation",
                                   "AddVxToI"} => i' = i
      ]_vars

\* AFFF 60FF F01E has run: I = 0xFFF + 0xFF = 0x10FE.
C17_Witness ==
    /\ ~panicked
    /\ code = 61470
    /\ v[0] = 255
    /\ i = 4350

\* C19: decrement_timers() lowers each timer that is above 0 by one and
\* leaves a timer at 0 where it is, each on its own, and changes nothing
\* else; a run() changes a timer only by SetDelayTimerToVx, respectively
\* SetSoundTimerToVx, which store Vx in it, and the key calls change no
\* timer, so between two writes a timer never rises and never wraps.
C19_TimerLaw ==
    [][/\ DecrementTimers =>
            /\ delay_timer' = (IF delay_timer > 0 THEN delay_timer - 1 ELSE 0)
            /\ sound_timer' = (IF sound_timer > 0 THEN sound_timer - 1 ELSE 0)
            /\ UNCHANGED <<memory, v, i, program_counter, stack_pointer,
                           keypad, screen, stack>>
       /\ Run =>
            /\ delay_timer' # delay_timer =>
                   /\ decoded'.op = "SetDelayTimerToVx"
                   /\ delay_timer' = v[decoded'.x]
            /\ sound_timer' # sound_timer =>
                   /\ decoded'.op = "SetSoundTimerToVx"
                   /\ sound_timer' = v[decoded'.x]
       /\ \A key \in KeyInputs : (KeyDown(key) \/ KeyUp(key)) =>
              UNCHANGED <<delay_timer, sound_timer>>
       /\ delay_timer' <= delay_timer \/ (Run /\ decoded'.op = "SetDelayTimerToVx")
       /\ sound_timer' <= sound_timer \/ (Run /\ decoded'.op = "SetSoundTimerToVx")
      ]_vars

\* The delay timer was written, ran down to 0 and stayed there while the
\* sound timer, written later, is down to 1; F007 has read the 0.
C19_Witness ==
    /\ ~panicked
    /\ code = 61447
    /\ v[0] = 0
    /\ delay_timer = 0
    /\ sound_timer = 1

---------------------------------------------------------------------------
(* The decoder on its own: Instruction::from applied to every 16-bit word. *)

InitDecode ==
    /\ memory = New.memory
    /\ v = New.v
    /\ i = New.i
    /\ delay_timer = New.delay_timer
    /\ sound_timer = New.sound_timer
    /\ program_counter = New.program_counter
    /\ stack_pointer = New.stack_pointer
    /\ keypad = New.keypad
    /\ screen = New.screen
    /\ stack = New.stack
    /\ overflow_checks = TRUE
    /\ panicked = FALSE
    /\ message = NoMessage
    /\ code \in 0..65535
    /\ decoded = NoInstruction
    /\ cursor = NoCursor
    /\ loaded = FALSE
    /\ calls = << >>
    /\ screen_before = {}

\* Instruction::from(code)
Decode ==
    /\ decoded = NoInstruction
    /\ decoded' = InstructionFrom(code)
    /\ UNCHANGED <<program_vars, overflow_checks, panicked, message, code,
                   cursor, loaded, calls, screen_before>>

SpecDecode == InitDecode /\ [][Decode]_vars

\* The variants of the Instruction enum with the operands each carries.
InstructionType ==
    [op : {"Clear", "ReturnSubroutine"}]
    \cup [op : {"JumpTo", "CallSubroutine", "SetIToAddress", "JumpToPlusV0"},
          address : 0..65535]
    \cup [op : {"SkipEqual", "SkipNotEqual", "SetRegister", "AddRegister",
                "SetVxToRandomAndValue"},
          x : 0..15, value : 0..255]
    \cup [op : {"SkipRegisterEqual", "SetVxToVy", "SetVxToVxOrVy",
                "SetVxToVxAndVy", "SetVxToVxXorVy", "SetVxToVxAndVyCarry",
                "SetVxToVxSubVy", "SetVxToVySubVx", "SkipRegisterNotEqual"},
          x : 0..15, y : 0..15]
    \cup [op : {"SetVxToVxShr", "SetVxToVxShl", "SkipKeyPressed",
                "SkipKeyNotPressed", "SetVxToDelayTimer", "SetVxToNextKeyPress",
                "SetDelayTimerToVx", "SetSoundTimerToVx", "AddVxToI",
                "SetIToSpriteLocation", "StoreBCD", "StoreRegisters",
                "ReadRegisters"},
          x : 0..15]
    \cup [op : {"Draw"}, x : 0..15, y : 0..15, n : 0..15]
    \cup [op : {"InvalidInstruction"},
          a : 0..15, b : 0..15, c : 0..15, d : 0..15]

\* C2: for every 16-bit word, Instruction::from returns a value of the
\* Instruction enum: one of the 35 operations with its operands, or
\* InvalidInstruction; there is no word it gives up on.
C2_DecodeIsTotal ==
    decoded # NoInstruction => decoded \in InstructionType

\* FFFF has been decoded, to the fallback.
C2_Witness ==
    /\ code = 65535
    /\ decoded = [op |-> "InvalidInstruction", a |-> 15, b |-> 15, c |-> 15,
                  d |-> 15]

\* The opcode table of the design: the words that are a defined operation.
InOpcodeTable(w) ==
    LET n0 == w \div 4096
        n3 == w % 16
        kk == w % 256
    IN \/ w \in {224, 238}                               \* 00E0 00EE
       \/ n0 \in {1, 2, 3, 4, 6, 7, 10, 11, 12, 13}
       \/ n0 \in {5, 9} /\ n3 = 0
       \/ n0 = 8 /\ n3 \in {0, 1, 2, 3, 4, 5, 6, 7, 14}
       \/ n0 = 14 /\ kk \in {158, 161}                   \* 9E A1
       \/ n0 = 15 /\ kk \in {7, 10, 21, 24, 30, 41, 51, 85, 101}
                           \* 07 0A 15 18 1E 29 33 55 65

\* C4 (the claim as stated): every word outside the opcode table decodes
\* to InvalidInstruction carrying the four nibbles of the word.
C4_UnlistedWordsAreInvalid ==
    (decoded # NoInstruction /\ ~InOpcodeTable(code)) =>
        decoded = [op |-> "InvalidInstruction",
                   a |-> code \div 4096, b |-> (code \div 256) % 16,
                   c |-> (code \div 16) % 16, d |-> code % 16]

---------------------------------------------------------------------------
(* Single instructions run on a Program whose registers, address register  *)
(* and display are drawn from samples.  Every such Program is one the      *)
(* machine can be in: registers are set by 6xkk, I by Annn, display cells  *)
(* by Draw, and load() replaces the program text without touching them.    *)

\* The Program p about to run, loaded, with nothing run yet.
StartFrom(p) ==
    /\ memory = p.memory
    /\ v = p.v
    /\ i = p.i
    /\ delay_timer = p.delay_timer
    /\ sound_timer = p.sound_timer
    /\ program_counter = p.program_counter
    /\ stack_pointer = p.stack_pointer
    /\ keypad = p.keypad
    /\ screen = p.screen
    /\ stack = p.stack
    /\ overflow_checks \in BOOLEAN
    /\ panicked = FALSE
    /\ message = NoMessage
    /\ code = 0
    /\ decoded = NoInstruction
    /\ cursor = NoCursor
    /\ loaded = TRUE
    /\ calls = << >>
    /\ screen_before = {}

\* Registers: Vx = a, Vy = b (Vx = Vy = a when x = y), VF = c unless F is
\* x or y, every other register 0.
RegisterFile(x, y, a, b, c) ==
    [r \in 0..15 |->
        IF r = x THEN a ELSE IF r = y THEN b ELSE IF r = 15 THEN c ELSE 0]

RegSamples == {0, 1, 14, 15}
ByteSamples == {0, 1, 3, 128, 200, 255}
FlagSamples == {0, 2}

\* The arithmetic instructions 8xyN sampled: 8xy4, 8xy5, 8xy6, 8xy7, 8xyE.
AluOps == {4, 5, 6, 7, 14}

InitAlu ==
    \E x \in RegSamples, y \in RegSamples, n \in AluOps,
       a \in ByteSamples, b \in ByteSamples, c \in FlagSamples :
        StartFrom([load(New, Bytes(<<32768 + 256 * x + 16 * y + n>>))
                      EXCEPT !.v = RegisterFile(x, y, a, b, c)])

SpecAlu == InitAlu /\ [][Run]_vars

\* C7 (the claim as stated): after AddWithCarry(x, y), VF = 1 iff
\* Vx + Vy > 255, else 0, and Vx = (Vx + Vy) mod 256, for every x and y.
C7_CarryLawAllRegisters ==
    [][(RunReturned /\ decoded'.op = "SetVxToVxAndVyCarry") =>
          LET sum == v[decoded'.x] + v[decoded'.y]
          IN /\ v'[15] = (IF sum > 255 THEN 1 ELSE 0)
             /\ v'[decoded'.x] = sum % 256
      ]_vars

\* C7 (amended): after AddWithCarry(x, y), VF = 1 iff Vx + Vy > 255, else
\* 0, for every x and y; Vx = (Vx + Vy) mod 256 for every x other than F
\* (with x = F the carry, written last, replaces the sum).
C7_CarryLaw ==
    [][(RunReturned /\ decoded'.op = "SetVxToVxAndVyCarry") =>
          LET sum == v[decoded'.x] + v[decoded'.y]
          IN /\ v'[15] = (IF sum > 255 THEN 1 ELSE 0)
             /\ decoded'.x # 15 => v'[decoded'.x] = sum % 256
      ]_vars

\* 8014 with V0 = 128 and V1 = 255 has run: V0 = 127, VF = 1.
C7_Witness ==
    /\ ~panicked
    /\ code = 32788
    /\ cursor = CursorNext
    /\ v[1] = 255
    /\ v[0] = 127
    /\ v[15] = 1

\* C8 (the claim as stated): 8xy5 leaves VF = 1 iff Vx > Vy, else 0, and
\* Vx = (Vx - Vy) mod 256; 8xy7 leaves VF = 1 iff Vy > Vx, else 0, and
\* Vx = (Vy - Vx) mod 256; flag and difference are those of the register
\* values held before the instruction, for every x and y, F included.
C8_BorrowLawAllRegisters ==
    [][/\ (RunReturned /\ decoded'.op = "SetVxToVxSubVy") =>
            /\ v'[15] = (IF v[decoded'.x] > v[decoded'.y] THEN 1 ELSE 0)
            /\ v'[decoded'.x] = (v[decoded'.x] - v[decoded'.y]) % 256
       /\ (RunReturned /\ decoded'.op = "SetVxToVySubVx") =>
            /\ v'[15] = (IF v[decoded'.y] > v[decoded'.x] THEN 1 ELSE 0)
            /\ v'[decoded'.x] = (v[decoded'.y] - v[decoded'.x]) % 256
      ]_vars

---------------------------------------------------------------------------
(* The same Draw run twice in a row.                                       *)

DrawRegSamples == {0, 1, 15}
ColumnSamples == {2, 60, 255}
RowSamples == {1, 30}
HeightSamples == {0, 1, 5, 15}

\* I at the built-in glyphs, at the zero bytes behind them, and 6 bytes
\* before the end of memory.
AddressSamples == {0, 80, 4090}

\* The display blank, all lit, and lit in a checkerboard.
ScreenSamples ==
    { BlankScreen,
      [r \in 0..31 |-> [c \in 0..63 |-> TRUE]],
      [r \in 0..31 |-> [c \in 0..63 |-> (r + c) % 2 = 0]] }

InitDraw ==
    \E scr \in ScreenSamples, at \in AddressSamples, n \in HeightSamples,
       a \in ColumnSamples, b \in RowSamples,
       y \in DrawRegSamples, x \in DrawRegSamples :
        LET w == 53248 + 256 * x + 16 * y + n      \* Dxyn
        IN StartFrom([load(New, Bytes(<<w, w>>))
                         EXCEPT !.v = RegisterFile(x, y, a, b, 1),
                                !.i = at,
                                !.screen = scr])

SpecDraw == InitDraw /\ [][Run]_vars

\* Bit col (most significant first) of sprite row `row` at I is set.
SpriteBit(row, col) ==
    (memory[i + row] \div Pow2(7 - col)) % 2 = 1

\* A Draw that completes right after the same Draw completed.
SecondDraw ==
    /\ RunReturned
    /\ decoded'.op = "Draw"
    /\ decoded = decoded'
    /\ cursor = CursorNext
    /\ \E row \in 0..(decoded.n - 1), col \in 0..7 : SpriteBit(row, col)

\* C9 (the claim as stated): the second of two equal Draws in a row, of a
\* sprite with a set bit, leaves the display as it was before the first
\* and leaves VF = 1, whatever the registers and the prior display.
C9_DrawTwiceAllCases ==
    [][SecondDraw =>
          /\ LitCells(screen') = screen_before
          /\ v'[15] = 1
      ]_vars

\* C9 (amended): for x and y other than F, the second of two equal Draws
\* in a row leaves the display as it was before the first, and leaves
\* VF = 1 iff a set sprite bit falls on a cell that was unlit before the
\* first Draw (so VF = 1 on a display blank under the sprite, and VF = 0
\* when every cell under a set bit was lit).
C9_DrawTwice ==
    [][(SecondDraw /\ decoded.x # 15 /\ decoded.y # 15) =>
          /\ LitCells(screen') = screen_before
          /\ v'[15] = 1 <=>
                \E row \in 0..(decoded.n - 1), col \in 0..7 :
                    /\ SpriteBit(row, col)
                    /\ <<(v[decoded.y] + row) % 32, (v[decoded.x] + col) % 64>>
                           \notin screen_before
      ]_vars

\* D015 D015 on a blank display: blank again, VF = 1.
C9_Witness ==
    /\ ~panicked
    /\ program_counter = 516
    /\ decoded = [op |-> "Draw", x |-> 0, y |-> 1, n |-> 5]
    /\ screen = BlankScreen
    /\ screen_before # {}
    /\ v[15] = 1

---------------------------------------------------------------------------
(* load() called at any time, also on a Program that already ran.          *)

\* n bytes, none of them 0.
LongData(n) == [j \in 1..n |-> 1 + (j % 251)]

\* The lengths around the 4096 - 0x200 = 3584 bytes that fit.
LongLengths == {3583, 3584, 3585, 3586}

LoadSamples ==
    { << >>, <<18>>,
      Bytes(<<24586, 28677>>),          \* 600A 7005
      Bytes(<<24747, 61525>>) }         \* 60AB F055 (writes memory[0])
        \cup {LongData(n) : n \in LongLengths}

\* Program::load(data) on the Program as it is.
LoadAny(data) ==
    /\ ~panicked
    /\ SetProgram(load(Program, data))
    /\ loaded' = TRUE
    /\ UNCHANGED <<overflow_checks, panicked, message, code, decoded, cursor,
                   calls, screen_before>>

NextLoad ==
    \/ \E data \in LoadSamples : LoadAny(data)
    \/ Run

SpecLoad == Init /\ [][NextLoad]_vars

\* C18: load(data) leaves memory[0x200 + k] = data[k] for k below the
\* length of data and below 3584, and 0 for the other k below 3584; bytes
\* of data from 3584 on are dropped without an error; memory below 0x200
\* and everything else of the Program stay as they were, also when the
\* Program had run a longer program before.
C18_LoadLaw ==
    [][\A data \in LoadSamples : LoadAny(data) =>
          /\ LET len == Len(data)
             IN \A k \in 0..3583 :
                   memory'[512 + k] = (IF k < len THEN data[k + 1] ELSE 0)
          /\ \A a \in 0..511 : memory'[a] = memory[a]
          /\ ~panicked'
          /\ UNCHANGED <<v, i, delay_timer, sound_timer, program_counter,
                         stack_pointer, keypad, screen, stack>>
      ]_vars

\* 600A 7005 has run (V0 = 15, program counter 0x204), then the single
\* byte 12 was loaded: the rest of the old program is zeroed, the glyphs
\* and the registers are kept.
C18_Witness ==
    /\ ~panicked
    /\ program_counter = 516
    /\ v[0] = 15
    /\ code = 28677
    /\ memory[512] = 18
    /\ \A a \in 513..4095 : memory[a] = 0
    /\ \A a \in 0..79 : memory[a] = SPRITES[a + 1]

---------------------------------------------------------------------------
(* The decoder read backwards (specification SpecDecode).                  *)

\* The word of each instruction with all its operand fields 0, read off
\* the patterns of the instructions! table.
OpcodeBase(op) ==
    CASE op = "Clear" -> 224                      \* 00E0
      [] op = "ReturnSubroutine" -> 238           \* 00EE
      [] op = "JumpTo" -> 4096                    \* 1nnn
      [] op = "CallSubroutine" -> 8192            \* 2nnn
      [] op = "SkipEqual" -> 12288                \* 3xkk
      [] op = "SkipNotEqual" -> 16384             \* 4xkk
      [] op = "SkipRegisterEqual" -> 20480        \* 5xy0
      [] op = "SetRegister" -> 24576              \* 6xkk
      [] op = "AddRegister" -> 28672              \* 7xkk
      [] op = "SetVxToVy" -> 32768                \* 8xy0
      [] op = "SetVxToVxOrVy" -> 32769            \* 8xy1
      [] op = "SetVxToVxAndVy" -> 32770           \* 8xy2
      [] op = "SetVxToVxXorVy" -> 32771           \* 8xy3
      [] op = "SetVxToVxAndVyCarry" -> 32772      \* 8xy4
      [] op = "SetVxToVxSubVy" -> 32773           \* 8xy5
      [] op = "SetVxToVxShr" -> 32774             \* 8x_6
      [] op = "SetVxToVySubVx" -> 32775           \* 8xy7
      [] op = "SetVxToVxShl" -> 32782             \* 8x_E
      [] op = "SkipRegisterNotEqual" -> 36864     \* 9xy0
      [] op = "SetIToAddress" -> 40960            \* Annn
      [] op = "JumpToPlusV0" -> 45056             \* Bnnn
      [] op = "SetVxToRandomAndValue" -> 49152    \* Cxkk
      [] op = "Draw" -> 53248                     \* Dxyn
      [] op = "SkipKeyPressed" -> 57502           \* Ex9E
      [] op = "SkipKeyNotPressed" -> 57505        \* ExA1
      [] op = "SetVxToDelayTimer" -> 61447        \* Fx07
      [] op = "SetVxToNextKeyPress" -> 61444      \* Fx04
      [] op = "SetDelayTimerToVx" -> 61461        \* Fx15
      [] op = "SetSoundTimerToVx" -> 61464        \* Fx18
      [] op = "AddVxToI" -> 61470                 \* Fx1E
      [] op = "SetIToSpriteLocation" -> 61481     \* Fx29
      [] op = "StoreBCD" -> 61491                 \* Fx33
      [] op = "StoreRegisters" -> 61525           \* Fx55
      [] op = "ReadRegisters" -> 61541            \* Fx65

\* The operand field f of an instruction, 0 if it carries none.
Field(ins, f) == IF f \in DOMAIN ins THEN ins[f] ELSE 0

\* The inverse bit layout: x in the second nibble, y in the third, n in
\* the fourth, kk in the low byte, nnn in the low twelve bits.
Encode(ins) ==
    OpcodeBase(ins.op) + 256 * Field(ins, "x") + 16 * Field(ins, "y")
        + Field(ins, "n") + Field(ins, "value") + Field(ins, "address")

\* The word decoded to one of the 34 instructions.
Defined == decoded # NoInstruction /\ decoded.op # "InvalidInstruction"

\* C20 (the claim as stated): every word that decodes to an instruction is
\* given back by encoding the instruction and its operand fields, so no
\* two such words decode to the same instruction with the same fields;
\* 8xy6 and 8xyE with any y included.
C20_EncodeInvertsDecode ==
    Defined => Encode(decoded) = code

\* C20 (amended): every word that decodes to an instruction other than the
\* two shifts is given back by encoding the instruction and its fields;
\* the shifts carry x only, so the sixteen words 8xy6 (8xyE) with the same
\* x decode to the same instruction, which encodes to 8x06 (8x0E).
C20_EncodeInvertsDecodeButShifts ==
    Defined =>
        Encode(decoded) =
            (IF decoded.op \in {"SetVxToVxShr", "SetVxToVxShl"}
             THEN code - 16 * ((code \div 16) % 16)
             ELSE code)

\* 8AB6 has decoded to the shift of VA, the B dropped: it encodes to 8A06.
C20_Witness ==
    /\ code = 35510
    /\ decoded = [op |-> "SetVxToVxShr", x |-> 10]
    /\ Encode(decoded) = 35334

\* C21: the operands an instruction carries are the bit fields of its
\* word (n0, n1, n2, n3): x = n1, y = n2, kk = 16 * n2 + n3 in 0..255,
\* n = n3, and nnn = 256 * n1 + 16 * n2 + n3, at most 0xFFF.
C21_OperandsAreBitFields ==
    Defined =>
        LET n1 == (code \div 256) % 16
            n2 == (code \div 16) % 16
            n3 == code % 16
            has(f) == f \in DOMAIN decoded
        IN /\ has("x") => decoded.x = n1
           /\ has("y") => decoded.y = n2
           /\ has("n") => decoded.n = n3
           /\ has("value") =>
                 decoded.value = 16 * n2 + n3 /\ decoded.value \in 0..255
           /\ has("address") =>
                 /\ decoded.address = 256 * n1 + 16 * n2 + n3
                 /\ decoded.address <= 4095
           /\ decoded.op \in {"SetIToAddress", "JumpTo", "CallSubroutine",
                              "JumpToPlusV0"} => has("address")
           /\ decoded.op \in {"SkipEqual", "SkipNotEqual", "SetRegister",
                              "AddRegister", "SetVxToRandomAndValue"} =>
                 has("x") /\ has("value")
           /\ decoded.op = "Draw" => has("x") /\ has("y") /\ has("n")

\* CABC has decoded to the random instruction on VA with kk = 0xBC.
C21_Witness ==
    /\ code = 51900
    /\ decoded = [op |-> "SetVxToRandomAndValue", x |-> 10, value |-> 188]

---------------------------------------------------------------------------
(* 6xkk 7xkk on a new Program.                                             *)

InitAdd ==
    \E x \in RegSamples, kk1 \in ByteSamples, kk2 \in ByteSamples :
        StartFrom(load(New, Bytes(<<24576 + 256 * x + kk1,
                                    28672 + 256 * x + kk2>>)))

SpecAdd == InitAdd /\ [][Run]_vars

\* C22: on a new Program loaded with 6x kk1 7x kk2, the second run()
\* leaves Vx = (kk1 + kk2) mod 256 and the program counter at 0x204;
\* AddRegister writes no carry: every register other than Vx, VF included,
\* and everything else of the Program is as it was.
C22_AddRegisterLaw ==
    [][(RunReturned /\ decoded'.op = "AddRegister") =>
          LET x == decoded'.x
          IN /\ decoded = [op |-> "SetRegister", x |-> x, value |-> memory[513]]
             /\ v'[x] = (memory[513] + memory[515]) % 256
             /\ program_counter' = 516
             /\ \A r \in 0..15 : r # x => v'[r] = v[r]
             /\ UNCHANGED <<memory, i, delay_timer, sound_timer,
                            stack_pointer, keypad, screen, stack>>
      ]_vars

\* 60C8 70C8 has run: V0 = (200 + 200) mod 256 = 144 and VF is still 0.
C22_Witness ==
    /\ ~panicked
    /\ code = 28872
    /\ v[0] = 144
    /\ v[15] = 0
    /\ program_counter = 516

---------------------------------------------------------------------------
(* The instructions that address memory through I, with I near and past    *)
(* the end of the memory.                                                  *)

\* Registers V0, V1, ... = seed, seed + 1, ... (mod 256).
SeedSamples == {1, 250}
BlockRegSamples == {0, 1, 15}
ISamples == {512, 592, 4080, 4094, 4095, 4350}

\* Fx55 60FF 6xEE Fx65;  Fx33;  Fx55 D015;  AFFE F155 A000 D015 AFFE D015;
\* Fx65.
MemRoms(x) ==
    { <<61525 + 256 * x, 24831, 24814 + 256 * x, 61541 + 256 * x>>,
      <<61491 + 256 * x>>,
      <<61525 + 256 * x, 53269>>,
      <<45054, 61781, 40960, 53269, 45054, 53269>>,
      <<61541 + 256 * x>> }

InitMem ==
    \E seed \in SeedSamples, x \in BlockRegSamples, at \in ISamples :
        \E rom \in MemRoms(x) :
            StartFrom([load(New, Bytes(rom))
                          EXCEPT !.v = [r \in 0..15 |-> (seed + r) % 256],
                                 !.i = at])

SpecMem == InitMem /\ [][Run]_vars

\* C23: with I + x <= 4095, StoreRegisters(x) completes and leaves
\* memory[I + k] = Vk for every k in 0..x and I, the registers and every
\* other byte of memory as they were; ReadRegisters(x) completes and
\* leaves Vk = memory[I + k] for every k in 0..x, so with the same I and
\* the memory a StoreRegisters(x) left it gives back the stored values,
\* and leaves I, the other registers and the memory as they were.
C23_RegisterBlockLaw ==
    [][/\ (Run /\ CanFetch(Program)
              /\ InstructionAtPc.op \in {"StoreRegisters", "ReadRegisters"}
              /\ i + InstructionAtPc.x <= 4095) => ~panicked'
       /\ (RunReturned /\ decoded'.op = "StoreRegisters") =>
            /\ \A a \in 0..4095 :
                  memory'[a] = (IF a >= i /\ a <= i + decoded'.x
                                THEN v[a - i] ELSE memory[a])
            /\ program_counter' = program_counter + 2
            /\ UNCHANGED <<v, i, delay_timer, sound_timer, stack_pointer,
                           keypad, screen, stack>>
       /\ (RunReturned /\ decoded'.op = "ReadRegisters") =>
            /\ \A k \in 0..15 :
                  v'[k] = (IF k <= decoded'.x THEN memory[i + k] ELSE v[k])
            /\ program_counter' = program_counter + 2
            /\ UNCHANGED <<memory, i, delay_timer, sound_timer, stack_pointer,
                           keypad, screen, stack>>
      ]_vars

\* I = 0x250, V0 = 1, V1 = 2: F155 stored them at 0x250 and 0x251, 60FF
\* and 61EE overwrote the registers, F165 has brought 1 and 2 back.
C23_Witness ==
    /\ ~panicked
    /\ code = 61797
    /\ program_counter = 520
    /\ i = 592
    /\ memory[592] = 1 /\ memory[593] = 2 /\ memory[594] = 0
    /\ v[0] = 1 /\ v[1] = 2 /\ v[2] = 3

---------------------------------------------------------------------------
(* Draw against the coordinates held when it starts (specification         *)
(* SpecDraw).                                                              *)

\* The cells under the set bits of the n-row sprite at I, placed at
\* column vx and row vy, wrapping at both edges.
SpriteCells(vx, vy, n) ==
    { <<(vy + row) % 32, (vx + col) % 64>> :
          <<row, col>> \in { rc \in (0..(n - 1)) \X (0..7) :
                                 SpriteBit(rc[1], rc[2]) } }

\* C24 (the claim as stated): Draw(x, y, n) with in-bounds I xors the
\* sprite into the cells [(Vy + r) mod 32][(Vx + c) mod 64], Vx and Vy
\* being the values held when the instruction starts, for every x and y,
\* F included; afterwards VF = 1 iff a cell went from set to unset, else
\* 0, and the step returns Next.
C24_DrawAtStartCoordinates ==
    [][(Run /\ CanFetch(Program) /\ InstructionAtPc.op = "Draw"
            /\ i + InstructionAtPc.n <= 4096) =>
          LET ins == InstructionAtPc
              cells == SpriteCells(v[ins.x], v[ins.y], ins.n)
              lit == LitCells(screen)
          IN /\ ~panicked'
             /\ cursor' = CursorNext
             /\ LitCells(screen') = (lit \ cells) \cup (cells \ lit)
             /\ v'[15] = (IF cells \cap lit # {} THEN 1 ELSE 0)
      ]_vars

---------------------------------------------------------------------------
(* The shifts (specification SpecAlu).                                     *)

\* C25 (the claim as stated): for every x, F included, and every value w
\* of Vx, SetVxToVxShr(x) leaves VF = w mod 2 and Vx = w div 2, and
\* SetVxToVxShl(x) leaves VF = w div 128 and Vx = (2 * w) mod 256; Vy has
\* no part in the result.
C25_ShiftLaw ==
    [][/\ (RunReturned /\ decoded'.op = "SetVxToVxShr") =>
            /\ v'[15] = v[decoded'.x] % 2
            /\ v'[decoded'.x] = v[decoded'.x] \div 2
       /\ (RunReturned /\ decoded'.op = "SetVxToVxShl") =>
            /\ v'[15] = v[decoded'.x] \div 128
            /\ v'[decoded'.x] = (2 * v[decoded'.x]) % 256
      ]_vars

---------------------------------------------------------------------------
(* I driven upward by repeated AddVxToI.                                   *)

\* How often the program below adds V0 = 0xFF to I = 0xFFF: often enough
\* for the sum to pass 65535.
AddCount == 245

\* AFFF 60FF followed by AddCount times F01E.
AddIRom ==
    Bytes(<<45055, 24831>> \o [k \in 1..AddCount |-> 61470])

InitAddI == StartFrom(load(New, AddIRom))

SpecAddI == InitAddI /\ [][Run]_vars

\* C26 (the claim as stated): AddVxToI completes for every I in 0..65535
\* and every Vx, leaves I = (I + Vx) mod 65536 (not masked to 12 bits),
\* returns Next and changes no register, VF included.
C26_AddVxToIWraps ==
    [][(Run /\ CanFetch(Program) /\ InstructionAtPc.op = "AddVxToI") =>
          /\ ~panicked'
          /\ cursor' = CursorNext
          /\ i' = (i + v[InstructionAtPc.x]) % 65536
          /\ v' = v
      ]_vars

---------------------------------------------------------------------------
(* The display (specification Spec).                                       *)

\* C27: the display changes only in a run() of Clear or Draw: a run() of
\* any other instruction and every keydown, keyup, decrement_timers and load
\* leave all 64x32 cells as they were; Clear blanks every cell whatever the
\* display held and returns Next.
C27_DisplayLaw ==
    [][/\ screen' # screen =>
            /\ Run
            /\ CanFetch(Program)
            /\ InstructionAtPc.op \in {"Clear", "Draw"}
       /\ (Run /\ CanFetch(Program) /\ InstructionAtPc.op = "Clear") =>
            /\ ~panicked'
            /\ screen' = BlankScreen
            /\ cursor' = CursorNext
            /\ program_counter' = program_counter + 2
      ]_vars

\* A000 D015 00E0: the glyph drawn at 0x202 has been cleared at 0x204.
C27_Witness ==
    /\ ~panicked
    /\ code = 224
    /\ memory[514] = 208 /\ memory[515] = 21
    /\ program_counter = 518
    /\ v[15] = 0
    /\ screen = BlankScreen

---------------------------------------------------------------------------
(* The call stack (specification Spec).                                    *)

\* The stack as the open calls determine it.
StackMatchesCalls ==
    /\ stack_pointer \in 0..16
    /\ stack_pointer = Len(calls)
    /\ \A k \in 0..15 :
          k < stack_pointer => stack[k] = calls[k + 1].pc + 2

\* C28: in every state reached from new() and a load by calls that did not
\* panic, the stack pointer is within 0..16 and equals the number of
\* completed CallSubroutine steps less the completed ReturnSubroutine
\* steps, and stack[k] for k below the stack pointer is the address of the
\* k-th open call plus 2; only a run() of CallSubroutine or
\* ReturnSubroutine changes stack or stack_pointer.
C28_StackLaw ==
    /\ [](~panicked => StackMatchesCalls)
    /\ [][(stack' # stack \/ stack_pointer' # stack_pointer) =>
             /\ Run
             /\ CanFetch(Program)
             /\ InstructionAtPc.op \in {"CallSubroutine", "ReturnSubroutine"}
         ]_vars

\* Sixteen calls are open and the two innermost have returned: the stack
\* pointer is 14 and the entries above it still hold the old return
\* addresses.
C28_Witness ==
    /\ ~panicked
    /\ decoded = [op |-> "ReturnSubroutine"]
    /\ stack_pointer = 14
    /\ Len(calls) = 14
    /\ stack[13] = calls[14].pc + 2
    /\ stack[15] = 512 + 4 * 15 + 2

---------------------------------------------------------------------------
(* The wait for a key and the host's key calls (specification Spec).       *)

\* The machine stands at a wait-for-key instruction.
AtWait == CanFetch(Program) /\ InstructionAtPc.op = "SetVxToNextKeyPress"

\* C29: the wait-for-key instruction reads the keypad as it is when run()
\* is called and never writes it.  A keydown or keyup on a waiting machine
\* changes the one keypad entry and nothing else, so a key pressed and
\* released between two run() calls leaves the machine as it was and the
\* next run() returns Stay; a run() with a key down completes at once and
\* leaves the key down, so the next wait completes as well.
C29_WaitSamplesKeypad ==
    [][/\ (Run /\ AtWait) =>
            /\ ~panicked'
            /\ keypad' = keypad
            /\ cursor' = (IF NoKeyDown THEN CursorStay ELSE CursorNext)
            /\ NoKeyDown => UNCHANGED program_vars
       /\ \A key \in KeyInputs :
            ((KeyDown(key) \/ KeyUp(key)) /\ AtWait /\ ~panicked') =>
                /\ \A k \in 0..15 : k # key => keypad'[k] = keypad[k]
                /\ UNCHANGED <<memory, v, i, delay_timer, sound_timer,
                               program_counter, stack_pointer, screen, stack>>
      ]_vars

\* F304 F504 with key 7 held down: both waits have completed and the key
\* is still down.
C29_Witness ==
    /\ ~panicked
    /\ code = 62724
    /\ cursor = CursorNext
    /\ program_counter = 516
    /\ keypad[7]
    /\ v[3] = 7
    /\ v[5] = 7

---------------------------------------------------------------------------
(* Indices past the end of the memory (specification SpecMem).             *)

\* The step ended in the bounds-check panic with the program counter where
\* it was.
FailedOutOfBounds ==
    /\ panicked'
    /\ message' = IndexOutOfBounds
    /\ program_counter' = program_counter

\* The rows of an n-row sprite at I that lie inside the memory.
RowsInMemory(n) ==
    IF i > 4095 THEN 0 ELSE IF i + n > 4096 THEN 4096 - i ELSE n

\* C30: Draw, StoreBCD, StoreRegisters and ReadRegisters never wrap an
\* index above 4095 to low memory: when I + offset > 4095 for an offset
\* the instruction uses, the run() panics and the program counter stays,
\* and what the instruction did at the smaller offsets stays done: the
\* bytes stored, the registers loaded, the sprite rows xor-ed into the
\* display and VF as those rows left it; nothing else has changed.
C30_OutOfBoundsIsPartial ==
    [][(Run /\ CanFetch(Program)) =>
          LET ins == InstructionAtPc
          IN /\ (ins.op = "StoreBCD" /\ i + 2 > 4095) =>
                  /\ FailedOutOfBounds
                  /\ \A a \in 0..4095 :
                        memory'[a] =
                           IF a = i THEN v[ins.x] \div 100
                           ELSE IF a = i + 1 THEN (v[ins.x] % 100) \div 10
                           ELSE memory[a]
                  /\ UNCHANGED <<v, i, screen>>
             /\ (ins.op = "StoreRegisters" /\ i + ins.x > 4095) =>
                  /\ FailedOutOfBounds
                  /\ \A a \in 0..4095 :
                        memory'[a] = IF a >= i /\ a <= i + ins.x
                                     THEN v[a - i] ELSE memory[a]
                  /\ UNCHANGED <<v, i, screen>>
             /\ (ins.op = "ReadRegisters" /\ i + ins.x > 4095) =>
                  /\ FailedOutOfBounds
                  /\ \A r \in 0..15 :
                        v'[r] = IF r <= ins.x /\ i + r <= 4095
                                THEN memory[i + r] ELSE v[r]
                  /\ UNCHANGED <<memory, i, screen>>
             /\ (ins.op = "Draw" /\ i + ins.n > 4096) =>
                  /\ FailedOutOfBounds
                  /\ UNCHANGED <<memory, i>>
                  /\ \A r \in 0..14 : v'[r] = v[r]
                  /\ (ins.x # 15 /\ ins.y # 15) =>
                        LET cells == SpriteCells(v[ins.x], v[ins.y],
                                                 RowsInMemory(ins.n))
                            lit == LitCells(screen)
                        IN /\ LitCells(screen') =
                                 (lit \ cells) \cup (cells \ lit)
                           /\ v'[15] = (IF cells \cap lit # {} THEN 1 ELSE 0)
      ]_vars

\* AFFE F155 A000 D015 AFFE D015 with V0 = 250, V1 = 251: the second draw
\* has xor-ed the rows at 4094 and 4095 over the glyph, set VF for the
\* collision and then panicked at row 2, at 0x20A.
C30_Witness ==
    /\ panicked
    /\ message = IndexOutOfBounds
    /\ code = 53269
    /\ program_counter = 522
    /\ i = 4094
    /\ v[15] = 1
    /\ memory[4094] = 250
    /\ screen[27][58] = FALSE
    /\ screen[28][58] = FALSE
    /\ screen[29][58] = TRUE

=============================================================================
